---- MODULE Spec2Model ----
(***************************************************************************)
(* robots-txt-tester: src/main.rs.                                         *)
(*                                                                         *)
(* One run of main: read the policy document and build the Robot for the   *)
(* fixed agent "googlebot", load the test cases through csv::Reader,       *)
(* evaluate them with a rayon parallel map, then rayon::join the report    *)
(* writer and the aggregator, and return the exit status.                  *)
(*                                                                         *)
(* Option<T> values are sequences: <<>> is None, <<x>> is Some(x).         *)
(***************************************************************************)
EXTENDS FiniteSets, Integers, Sequences, TLC

\* Longest test-case file, in rows.
MaxRows == 4

(***************************************************************************)
(* Inputs.                                                                 *)
(***************************************************************************)

\* Rows a test-case file is made of: a literal header, well-formed rows in
\* several boolean spellings, a row whose third field is no boolean, and
\* rows of two and of four fields.
Rows ==
    { <<"user_agent", "url", "expected_result">>,
      <<"bot", "/private", "false">>,
      <<"googlebot", "/private", "TRUE">>,
      <<"bot", "/x", "1">>,
      <<"bot", "/private", "maybe">>,
      <<"bot", "/x">>,
      <<"bot", "/x", "no", "extra">> }

RECURSIVE SeqsUpTo(_, _)
SeqsUpTo(S, n) ==
    IF n = 0 THEN {<<>>}
    ELSE LET shorter == SeqsUpTo(S, n - 1)
         IN  shorter \cup {Append(s, x) : s \in {t \in shorter : Len(t) = n - 1}, x \in S}

Files == SeqsUpTo(Rows, MaxRows)

\* Policy documents: per user-agent group, the set of disallowed URLs (None
\* when the document has no group for the agent).
Groups == {"*", "googlebot", "bot"}

PolicyDocuments ==
    { [g \in Groups |-> <<>>],
      [g \in Groups |-> IF g = "*" THEN <<{"/private"}>> ELSE <<>>],
      [g \in Groups |-> IF g = "bot" THEN <<{"/private"}>> ELSE <<>>],
      [g \in Groups |-> IF g = "googlebot" THEN <<{"/private"}>>
                        ELSE IF g = "*" THEN <<{}>> ELSE <<>>] }

\* Test-case file paths: components, each a sequence of name pieces.
Paths ==
    { << <<"data">>, <<"suite1", ".csv">> >>,
      << <<"cases", ".csv", ".v2", ".csv">> >> }

(***************************************************************************)
(* External collaborators as main uses them.                               *)
(***************************************************************************)

\* The argument main passes to Robot::new.
RobotAgent == "googlebot"

\* Robot::new(agent, document): the rules of the agent's own group, else of
\* the "*" group, else no rule.
Robot_new(agent, document) ==
    [agent |-> agent,
     disallow |-> IF document[agent] # <<>> THEN document[agent][1]
                  ELSE IF document["*"] # <<>> THEN document["*"][1]
                  ELSE {}]

\* r.allowed(url)
allowed(robot, url) == url \notin robot.disallow

TrueTokens == {"true", "TRUE", "True", "t", "yes", "YES", "y", "1", "on"}
FalseTokens == {"false", "FALSE", "False", "f", "no", "NO", "n", "0", "off"}

\* str::parse::<LenientBool>(): Some(bool) or None for an unknown token.
LenientBool_parse(s) ==
    IF s \in TrueTokens THEN <<TRUE>>
    ELSE IF s \in FalseTokens THEN <<FALSE>>
    ELSE <<>>

(***************************************************************************)
(* get_test_cases                                                          *)
(***************************************************************************)

LoadOk(cases) == [tag |-> "Ok", kind |-> "", cases |-> cases]
LoadErr(kind) == [tag |-> "Err", kind |-> kind, cases |-> <<>>]
LoadPanic(kind) == [tag |-> "Panic", kind |-> kind, cases |-> <<>>]
NotLoaded == [tag |-> "NotLoaded", kind |-> "", cases |-> <<>>]

\* Faulty variant of records: a reader built with has_headers(false).
records_without_headers(content) == content

\* rdr.records(): csv::Reader::from_reader keeps the default
\* has_headers(true), so the first record is consumed as the header and is
\* not yielded; it still fixes the field count every later record is held to.
records(content) == IF content = <<>> THEN <<>> ELSE Tail(content)

first_field_count(content) == Len(content[1])

\* The loop body of get_test_cases for the records from index i on.
RECURSIVE read_records(_, _, _, _)
read_records(recs, i, count, test_cases) ==
    IF i > Len(recs) THEN LoadOk(test_cases)
    ELSE LET record == recs[i]
         IN  IF Len(record) # count THEN LoadErr("UnequalLengths")
             ELSE IF Len(record) < 3 THEN LoadPanic("IndexOutOfBounds")
             ELSE IF LenientBool_parse(record[3]) = <<>> THEN LoadPanic("InvalidBoolean")
             ELSE read_records(recs, i + 1, count,
                      Append(test_cases,
                             [user_agent |-> record[1],
                              url |-> record[2],
                              expected_result |-> LenientBool_parse(record[3])[1]]))

get_test_cases(content) ==
    IF content = <<>> THEN LoadOk(<<>>)
    ELSE read_records(records(content), 1, first_field_count(content), <<>>)

(***************************************************************************)
(* Evaluation, report and summary helpers                                  *)
(***************************************************************************)

\* Faulty variant of TestCaseOutput: the matcher's answer stored as the verdict.
TestCaseOutput_unchecked(test, matcher_result) ==
    [result |-> matcher_result,
     expected_result |-> test.expected_result,
     url |-> test.url,
     user_agent |-> test.user_agent]

\* The TestCaseOutput the map closure builds.
TestCaseOutput(test, matcher_result) ==
    [result |-> (matcher_result = test.expected_result),
     expected_result |-> test.expected_result,
     url |-> test.url,
     user_agent |-> test.user_agent]

get_test_case_name(result) ==
    <<"Accessing URL: ", result.url, " as ", result.user_agent, " should be ",
      IF result.expected_result THEN "allowed" ELSE "denied">>

\* Faulty variant of report_entry: the match arms swapped.
report_entry_swapped(result) ==
    [name |-> get_test_case_name(result),
     time |-> 0,
     result |-> IF result.result THEN <<"Failure", "assert_eq", "not equal">>
                ELSE <<"Success">>]

\* One junit TestCase: name, duration in seconds, result.
report_entry(result) ==
    [name |-> get_test_case_name(result),
     time |-> 0,
     result |-> IF result.result THEN <<"Success">>
                ELSE <<"Failure", "assert_eq", "not equal">>]

RECURSIVE report_entries(_)
report_entries(results) ==
    IF results = <<>> THEN <<>>
    ELSE <<report_entry(Head(results))>> \o report_entries(Tail(results))

\* Path::file_name(): the last component.
file_name(path) == path[Len(path)]

\* str::replace(".csv", ""): every occurrence goes.
replace_csv(name) == SelectSeq(name, LAMBDA piece : piece # ".csv")

\* The document and file generate_test_report produces when the write works.
report_document(results, test_suite_name) ==
    [path |-> <<"./", test_suite_name, ".robots-test-results.xml">>,
     testsuites |-> << [name |-> test_suite_name,
                        testcases |-> report_entries(results)] >>]

\* Faulty variant of passed_count: the filter reads the expectation, not the verdict.
passed_count_expected(results) == Len(SelectSeq(results, LAMBDA n : n.expected_result))

\* test_results.par_iter().filter(|n| n.result).count()
passed_count(results) == Len(SelectSeq(results, LAMBDA n : n.result))

run_summary(results) ==
    LET total_test_count == Len(results)
        passed_test_count == passed_count(results)
    IN  [total |-> total_test_count,
         passed |-> passed_test_count,
         failed |-> total_test_count - passed_test_count]

(***************************************************************************)
(* State                                                                   *)
(***************************************************************************)
VARIABLES
    robots_content,         \* the policy document on disk
    test_case_content,      \* the test-case file on disk
    test_case_file_path,    \* args.test_case_file_path
    generate_test_report,   \* args.generate_test_report
    pc,                     \* position of main
    r,                      \* Option<Robot>
    loaded,                 \* what get_test_cases came back with
    slots,                  \* per index, the outcome a worker produced
    test_results,           \* the collected Vec<TestCaseOutput>
    report_done,            \* the first closure of rayon::join has run
    report_panicked,        \* ... and panicked
    report_file,            \* Option<report file on disk>
    summary_done,           \* the second closure of rayon::join has run
    summary,                \* Option<counts printed>
    exit_code,              \* Option<the second closure's value>
    stdout,                 \* lines printed
    exit_status             \* Option<process exit status>

vars ==
    <<robots_content, test_case_content, test_case_file_path, generate_test_report,
      pc, r, loaded, slots, test_results, report_done, report_panicked, report_file,
      summary_done, summary, exit_code, stdout, exit_status>>

inputs == <<robots_content, test_case_content, test_case_file_path, generate_test_report>>

Init ==
    /\ robots_content \in PolicyDocuments
    /\ test_case_content \in Files
    /\ test_case_file_path \in Paths
    /\ generate_test_report \in BOOLEAN
    /\ pc = "start"
    /\ r = <<>>
    /\ loaded = NotLoaded
    /\ slots = <<>>
    /\ test_results = <<>>
    /\ report_done = FALSE
    /\ report_panicked = FALSE
    /\ report_file = <<>>
    /\ summary_done = FALSE
    /\ summary = <<>>
    /\ exit_code = <<>>
    /\ stdout = <<>>
    /\ exit_status = <<>>

(***************************************************************************)
(* main                                                                    *)
(***************************************************************************)

\* Lines 32-34, the document is read and parsed.
BuildRobot ==
    /\ pc = "start"
    /\ r' = <<Robot_new(RobotAgent, robots_content)>>
    /\ pc' = "load"
    /\ UNCHANGED <<inputs, loaded, slots, test_results, report_done, report_panicked,
                   report_file, summary_done, summary, exit_code, stdout, exit_status>>

\* Lines 32-34, read_to_string fails (expect) or Robot::new fails (unwrap).
BuildRobotPanics ==
    /\ pc = "start"
    /\ pc' = "done"
    /\ exit_status' = <<"PANIC">>
    /\ UNCHANGED <<inputs, r, loaded, slots, test_results, report_done, report_panicked,
                   report_file, summary_done, summary, exit_code, stdout>>

\* What main does with the value (or panic) of get_test_cases.
after_load(result) ==
    /\ loaded' = result
    /\ IF result.tag = "Ok"
       THEN /\ slots' = [i \in 1..Len(result.cases) |-> <<>>]
            /\ pc' = "eval"
            /\ UNCHANGED <<stdout, exit_status>>
       ELSE IF result.tag = "Err"
       THEN /\ stdout' = Append(stdout, <<"error getting test cases: ", result.kind>>)
            /\ exit_status' = <<"FAILURE">>
            /\ pc' = "done"
            /\ UNCHANGED slots
       ELSE /\ exit_status' = <<"PANIC">>
            /\ pc' = "done"
            /\ UNCHANGED <<stdout, slots>>
    /\ UNCHANGED <<inputs, r, test_results, report_done, report_panicked, report_file,
                   summary_done, summary, exit_code>>

\* Lines 36-42 with the file readable.
LoadTestCases ==
    /\ pc = "load"
    /\ after_load(get_test_cases(test_case_content))

\* Lines 36-42 with fs::read_to_string failing in get_test_cases.
LoadTestCasesIoError ==
    /\ pc = "load"
    /\ after_load(LoadErr("Io"))

\* Lines 45-54: one worker maps the test case at index i.
Evaluate(i) ==
    /\ pc = "eval"
    /\ slots[i] = <<>>
    /\ LET test == loaded.cases[i]
           matcher_result == allowed(r[1], test.url)
       IN  slots' = [slots EXCEPT ![i] = <<TestCaseOutput(test, matcher_result)>>]
    /\ UNCHANGED <<inputs, pc, r, loaded, test_results, report_done, report_panicked,
                   report_file, summary_done, summary, exit_code, stdout, exit_status>>

\* Faulty variant of Collect: outcomes gathered last-to-first instead of by index.
Collect_reversed ==
    /\ pc = "eval"
    /\ \A i \in DOMAIN slots : slots[i] # <<>>
    /\ test_results' = [i \in DOMAIN slots |-> slots[Len(slots) + 1 - i][1]]
    /\ pc' = "join"
    /\ UNCHANGED <<inputs, r, loaded, slots, report_done, report_panicked, report_file,
                   summary_done, summary, exit_code, stdout, exit_status>>

\* Faulty variant of Collect: no barrier, whatever the workers have produced so far
\* is taken as the result.
Collect_early ==
    /\ pc = "eval"
    /\ test_results' = LET got == SelectSeq(slots, LAMBDA s : s # <<>>)
                       IN  [i \in DOMAIN got |-> got[i][1]]
    /\ pc' = "join"
    /\ UNCHANGED <<inputs, r, loaded, slots, report_done, report_panicked, report_file,
                   summary_done, summary, exit_code, stdout, exit_status>>

\* Line 55: collect() returns once every item is mapped, in input order.
Collect ==
    /\ pc = "eval"
    /\ \A i \in DOMAIN slots : slots[i] # <<>>
    /\ test_results' = [i \in DOMAIN slots |-> slots[i][1]]
    /\ pc' = "join"
    /\ UNCHANGED <<inputs, r, loaded, slots, report_done, report_panicked, report_file,
                   summary_done, summary, exit_code, stdout, exit_status>>

\* Lines 59-70, and generate_test_report with the file written.
ReportTask ==
    /\ pc = "join"
    /\ ~report_done
    /\ report_done' = TRUE
    /\ IF generate_test_report
       THEN LET test_case_input_file_name == replace_csv(file_name(test_case_file_path))
            IN  report_file' = <<report_document(test_results, test_case_input_file_name)>>
       ELSE UNCHANGED report_file
    /\ UNCHANGED <<inputs, pc, r, loaded, slots, test_results, report_panicked,
                   summary_done, summary, exit_code, stdout, exit_status>>

\* Lines 119-122: File::create, write_xml, flush or sync_all fails (unwrap).
ReportTaskPanics ==
    /\ pc = "join"
    /\ ~report_done
    /\ generate_test_report
    /\ report_done' = TRUE
    /\ report_panicked' = TRUE
    /\ UNCHANGED <<inputs, pc, r, loaded, slots, test_results, report_file,
                   summary_done, summary, exit_code, stdout, exit_status>>

\* Lines 71-80.
SummaryTask ==
    /\ pc = "join"
    /\ ~summary_done
    /\ summary_done' = TRUE
    /\ LET s == run_summary(test_results)
       IN  /\ summary' = <<s>>
           /\ stdout' = stdout \o << <<"Test cases run: ", s.total>>,
                                     <<"Passed tests: ", s.passed>>,
                                     <<"Failed tests: ", s.failed>>,
                                     <<"Elapsed time ", "ms">> >>
           /\ exit_code' = <<IF s.failed > 0 THEN "FAILURE" ELSE "SUCCESS">>
    /\ UNCHANGED <<inputs, pc, r, loaded, slots, test_results, report_done,
                   report_panicked, report_file, exit_status>>

\* Faulty variant of Join: a panic of the report closure is swallowed.
Join_swallowing_panic ==
    /\ pc = "join"
    /\ report_done
    /\ summary_done
    /\ exit_status' = exit_code
    /\ pc' = "done"
    /\ UNCHANGED <<inputs, r, loaded, slots, test_results, report_done, report_panicked,
                   report_file, summary_done, summary, exit_code, stdout>>

\* Lines 58, 81-83: join returns when both closures ran; a panic of either
\* is propagated, otherwise main returns the second closure's value.
Join ==
    /\ pc = "join"
    /\ report_done
    /\ summary_done
    /\ exit_status' = IF report_panicked THEN <<"PANIC">> ELSE exit_code
    /\ pc' = "done"
    /\ UNCHANGED <<inputs, r, loaded, slots, test_results, report_done, report_panicked,
                   report_file, summary_done, summary, exit_code, stdout>>

Next ==
    \/ BuildRobot
    \/ BuildRobotPanics
    \/ LoadTestCases
    \/ LoadTestCasesIoError
    \/ \E i \in DOMAIN slots : Evaluate(i)
    \/ Collect
    \/ ReportTask
    \/ ReportTaskPanics
    \/ SummaryTask
    \/ Join

Spec == Init /\ [][Next]_vars

(***************************************************************************)
(* Properties                                                              *)
(***************************************************************************)

Done == pc = "done"
ExitFailure == exit_status # <<"SUCCESS">>
LoadFailed == loaded.tag \in {"Err", "Panic"}
FailedCount == Cardinality({i \in DOMAIN test_results : ~test_results[i].result})
AllowedLabel(b) == IF b THEN "allowed" ELSE "denied"
HeaderRow == <<"user_agent", "url", "expected_result">>
Occurrences(seq, x) == Cardinality({i \in DOMAIN seq : seq[i] = x})
SameMultiset(a, b) ==
    /\ Len(a) = Len(b)
    /\ \A i \in DOMAIN a : Occurrences(a, a[i]) = Occurrences(b, a[i])

\* C1 as stated: in a finished run whose policy document was read, the exit
\* status is failure if and only if some test case failed or the test-case
\* file failed to load; a failed report write with no failed test case
\* still ends in success.
C1_ExitStatusLaw_AsStated ==
    (Done /\ r # <<>>) => (ExitFailure <=> (FailedCount > 0 \/ LoadFailed))

\* C1 amended: a finished run has an exit status, and it is failure if and
\* only if some test case failed, or the test-case file failed to load, or
\* the report write panicked, or the policy document could not be read or
\* parsed.
C1_ExitStatusLaw ==
    Done =>
        /\ exit_status # <<>>
        /\ ExitFailure <=> (FailedCount > 0 \/ LoadFailed \/ report_panicked \/ r = <<>>)

\* C1 witness: a run with no failed test case whose report write panicked.
C1_Witness ==
    /\ Done
    /\ loaded.tag = "Ok"
    /\ Len(test_results) > 0
    /\ FailedCount = 0
    /\ report_panicked
    /\ exit_status = <<"PANIC">>

\* C2: once evaluation is over, there is exactly one outcome per loaded
\* definition, and the outcome at index i carries the user_agent, url and
\* expected_result of the definition at index i; every outcome a worker has
\* produced so far sits at its definition's index.
C2_OneOutcomePerDefinition ==
    /\ \A i \in DOMAIN slots :
           slots[i] # <<>> =>
               /\ slots[i][1].user_agent = loaded.cases[i].user_agent
               /\ slots[i][1].url = loaded.cases[i].url
               /\ slots[i][1].expected_result = loaded.cases[i].expected_result
    /\ pc \in {"join", "done"} =>
           /\ Len(test_results) = Len(loaded.cases)
           /\ \A i \in DOMAIN test_results :
                  /\ test_results[i].user_agent = loaded.cases[i].user_agent
                  /\ test_results[i].url = loaded.cases[i].url
                  /\ test_results[i].expected_result = loaded.cases[i].expected_result

\* C2 witness: three outcomes collected, the first two from different
\* definitions.
C2_Witness ==
    /\ pc = "join"
    /\ Len(test_results) = 3
    /\ test_results[1].user_agent # test_results[2].user_agent
    /\ test_results[2].url # test_results[3].url

\* C3 as stated: every outcome is judged by the decision for the test
\* case's own user agent, decide(def.user_agent, def.url).
C3_DecidesForOwnUserAgent ==
    \A i \in DOMAIN slots :
        slots[i] # <<>> =>
            LET def == loaded.cases[i]
            IN  slots[i][1].result
                    = (allowed(Robot_new(def.user_agent, robots_content), def.url)
                           = def.expected_result)

\* C4: an outcome's passed flag is true exactly when the decision the
\* matcher gave for the case's url equals the case's expected_result.
C4_PassedIffActualEqualsExpected ==
    /\ \A i \in DOMAIN slots :
           slots[i] # <<>> =>
               (slots[i][1].result
                    <=> ((loaded.cases[i].url \notin r[1].disallow)
                             = loaded.cases[i].expected_result))
    /\ \A i \in DOMAIN test_results :
           test_results[i].result
               <=> ((loaded.cases[i].url \notin r[1].disallow)
                        = loaded.cases[i].expected_result)

\* C4 witness: "/private" is disallowed; the case expecting denied passed
\* and the case expecting allowed failed.
C4_Witness ==
    /\ pc = "join"
    /\ "/private" \in r[1].disallow
    /\ \E i, j \in DOMAIN test_results :
           /\ test_results[i].url = "/private"
           /\ ~test_results[i].expected_result
           /\ test_results[i].result
           /\ test_results[j].url = "/private"
           /\ test_results[j].expected_result
           /\ ~test_results[j].result

SummaryLaw ==
    summary # <<>> =>
        /\ summary[1].total = Len(test_results)
        /\ summary[1].passed = Cardinality({i \in DOMAIN test_results : test_results[i].result})
        /\ summary[1].failed = summary[1].total - summary[1].passed
        /\ summary[1].failed >= 0

EmptyFileRun == Done /\ loaded.tag = "Ok" /\ test_case_content = <<>>

ZeroSummary == summary = <<[total |-> 0, passed |-> 0, failed |-> 0]>>

\* C5 as stated: the summary counts are total, passed and total - passed,
\* and a run on an empty test-case file prints 0, 0, 0 and exits with
\* success.
C5_Summary_AsStated ==
    /\ SummaryLaw
    /\ EmptyFileRun => (ZeroSummary /\ exit_status = <<"SUCCESS">>)

\* C5 amended: the summary counts are total, passed and total - passed
\* (never negative), and a run on an empty test-case file prints 0, 0, 0 and
\* exits with success unless the requested report could not be written, in
\* which case it ends in a panic.
C5_Summary ==
    /\ SummaryLaw
    /\ (pc \in {"join", "done"} /\ summary_done) => summary # <<>>
    /\ EmptyFileRun =>
           /\ ZeroSummary
           /\ exit_status = IF report_panicked THEN <<"PANIC">> ELSE <<"SUCCESS">>

\* C5 witness: a finished run on an empty file, 0/0/0, success.
C5_Witness ==
    EmptyFileRun /\ ZeroSummary /\ exit_status = <<"SUCCESS">> /\ stdout # <<>>

\* Some row of the file has a field count other than three.
HasWrongFieldCount == \E i \in DOMAIN test_case_content : Len(test_case_content[i]) # 3

\* The definition the loader builds from one row.
DefinitionOf(row) ==
    [user_agent |-> row[1], url |-> row[2],
     expected_result |-> (row[3] \in TrueTokens)]

\* C6 as stated: a successful load of a file of three-field rows yields one
\* definition per row, the first row included, in file order; a literal
\* header as first row makes the load fail.
C6_FirstRowIsData_AsStated ==
    /\ (loaded.tag = "Ok" /\ ~HasWrongFieldCount) =>
           /\ Len(loaded.cases) = Len(test_case_content)
           /\ \A i \in DOMAIN loaded.cases :
                  loaded.cases[i] = DefinitionOf(test_case_content[i])
    /\ (loaded.tag # "NotLoaded" /\ loaded.kind # "Io" /\ test_case_content # <<>>
            /\ test_case_content[1] = HeaderRow)
           => loaded.tag # "Ok"

\* C6 amended: the loader consumes the first row as a header and never
\* parses it; a successful load of a file with n >= 1 rows yields n - 1
\* definitions, those of rows 2..n in file order, and an invalid-boolean
\* failure is always due to a row after the first.
C6_FirstRowIsHeader ==
    /\ (loaded.tag = "Ok" /\ test_case_content # <<>>) =>
           /\ Len(loaded.cases) = Len(test_case_content) - 1
           /\ \A i \in DOMAIN loaded.cases :
                  /\ Len(test_case_content[i + 1]) >= 3
                  /\ test_case_content[i + 1][3] \in TrueTokens \cup FalseTokens
                  /\ loaded.cases[i] = DefinitionOf(test_case_content[i + 1])
    /\ loaded.kind = "InvalidBoolean" =>
           \E i \in 2..Len(test_case_content) :
               /\ Len(test_case_content[i]) >= 3
               /\ test_case_content[i][3] \notin TrueTokens \cup FalseTokens

\* C6 witness: a file whose first row is the literal header loaded, giving
\* the definitions of its two data rows.
C6_Witness ==
    /\ loaded.tag = "Ok"
    /\ Len(test_case_content) = 3
    /\ test_case_content[1] = HeaderRow
    /\ Len(loaded.cases) = 2

\* Every row has three fields and some row after the header has a third
\* field that is no boolean token.
HasInvalidBooleanRow ==
    /\ \A i \in DOMAIN test_case_content : Len(test_case_content[i]) = 3
    /\ \E i \in 2..Len(test_case_content) :
           test_case_content[i][3] \notin TrueTokens \cup FalseTokens

\* C7 as stated: when the third field of a data row is no lenient boolean,
\* get_test_cases returns an error value, main prints it through its error
\* branch and exits with FAILURE, and nothing is evaluated; the loader does
\* not abort the process.
C7_InvalidBooleanIsReturned ==
    (HasInvalidBooleanRow /\ loaded.tag # "NotLoaded" /\ loaded.kind # "Io") =>
        /\ loaded.tag = "Err"
        /\ \E k \in DOMAIN stdout : stdout[k][1] = "error getting test cases: "
        /\ exit_status = <<"FAILURE">>
        /\ slots = <<>>

\* C8 as stated: when any row of the file has a field count other than
\* three, a finished run that reached the loader has a failed load, no test
\* case evaluated, no summary, no report, and a failure exit status.
C8_WrongFieldCountFailsLoad ==
    (Done /\ r # <<>> /\ HasWrongFieldCount) =>
        /\ LoadFailed
        /\ \A i \in DOMAIN slots : slots[i] = <<>>
        /\ test_results = <<>>
        /\ summary = <<>>
        /\ report_file = <<>>
        /\ ExitFailure

\* C9: a report that was requested and written holds exactly one group,
\* named after the report identifier, with one entry per outcome in outcome
\* order; the entry is a success with zero duration iff the outcome passed,
\* otherwise a failure of kind "assert_eq" and message "not equal", and its
\* name is built from the outcome's url, user_agent and "allowed"/"denied".
C9_Report ==
    /\ report_file # <<>> => generate_test_report
    /\ (generate_test_report /\ report_done /\ ~report_panicked) => report_file # <<>>
    /\ report_file # <<>> =>
           LET doc == report_file[1]
               ident == SelectSeq(test_case_file_path[Len(test_case_file_path)],
                                  LAMBDA piece : piece # ".csv")
           IN  /\ Len(doc.testsuites) = 1
               /\ doc.testsuites[1].name = ident
               /\ doc.path = <<"./", ident, ".robots-test-results.xml">>
               /\ Len(doc.testsuites[1].testcases) = Len(test_results)
               /\ \A i \in DOMAIN test_results :
                      LET e == doc.testsuites[1].testcases[i]
                          o == test_results[i]
                      IN  /\ e.name = <<"Accessing URL: ", o.url, " as ", o.user_agent,
                                        " should be ", AllowedLabel(o.expected_result)>>
                          /\ e.time = 0
                          /\ o.result => e.result = <<"Success">>
                          /\ ~o.result => e.result = <<"Failure", "assert_eq", "not equal">>

\* C9 witness: a written report with a success entry and a failure entry.
C9_Witness ==
    /\ report_file # <<>>
    /\ Len(report_file[1].testsuites[1].testcases) = 3
    /\ \E i, j \in DOMAIN test_results :
           /\ test_results[i].result
           /\ ~test_results[j].result
           /\ report_file[1].testsuites[1].testcases[i].result = <<"Success">>
           /\ report_file[1].testsuites[1].testcases[j].result[1] = "Failure"

\* The outcomes of evaluating the definitions one after the other.
RECURSIVE SequentialOutcomes(_, _)
SequentialOutcomes(robot, defs) ==
    IF defs = <<>> THEN <<>>
    ELSE LET d == Head(defs)
         IN  <<[result |-> ((d.url \notin robot.disallow) = d.expected_result),
                expected_result |-> d.expected_result,
                url |-> d.url,
                user_agent |-> d.user_agent]>>
             \o SequentialOutcomes(robot, Tail(defs))

\* C10: whatever order the workers and the two joined closures ran in, the
\* collected outcomes are the same multiset as a sequential evaluation of
\* the loaded definitions, the summary counts are those of that evaluation,
\* and the exit status is the one those counts (and the report write's
\* result) determine.
C10_Deterministic ==
    LET ref == SequentialOutcomes(r[1], loaded.cases)
        refPassed == Cardinality({i \in DOMAIN ref : ref[i].result})
        refFailed == Len(ref) - refPassed
    IN  /\ (pc \in {"join", "done"} /\ loaded.tag = "Ok") => SameMultiset(test_results, ref)
        /\ summary # <<>> =>
               summary[1] = [total |-> Len(ref), passed |-> refPassed, failed |-> refFailed]
        /\ exit_code # <<>> =>
               exit_code = <<IF refFailed > 0 THEN "FAILURE" ELSE "SUCCESS">>
        /\ (Done /\ loaded.tag = "Ok") =>
               exit_status = IF report_panicked THEN <<"PANIC">>
                             ELSE IF refFailed > 0 THEN <<"FAILURE">> ELSE <<"SUCCESS">>

\* C10 witness: a finished run over three cases, some passed and some
\* failed, with the report written after the summary was printed.
C10_Witness ==
    /\ Done
    /\ Len(test_results) = 3
    /\ summary # <<>>
    /\ summary[1].passed > 0
    /\ summary[1].failed > 0
    /\ report_file # <<>>
    /\ exit_status = <<"FAILURE">>
====
